---- MODULE Spec2Model ----
(***************************************************************************)
(* Model of setup-hooks.py: the install / uninstall workflows of the       *)
(* Datadog service-hook setup script for Azure DevOps, together with the   *)
(* remote state (the organization's service-hook subscriptions) that the   *)
(* script reads and mutates over successive runs.                          *)
(***************************************************************************)
EXTENDS Integers, Sequences, FiniteSets, TLC

(* ------------------------------------------------------------------ *)
(* Bounds of the model                                                 *)
(* ------------------------------------------------------------------ *)

\* number of successive runs of the script that are explored
MaxRuns == 2

(* ------------------------------------------------------------------ *)
(* Static tables of the script                                         *)
(* ------------------------------------------------------------------ *)

EVENT_TYPES ==
    << "git.pullrequest.created",
       "git.pullrequest.updated",
       "git.push",
       "ms.vss-pipelines.run-state-changed-event",
       "ms.vss-pipelines.stage-state-changed-event",
       "ms.vss-pipelines.job-state-changed-event",
       "ms.vss-pipelinechecks-events.approval-pending",
       "ms.vss-pipelinechecks-events.approval-completed",
       "build.complete" >>

\* Python's None for args.project and for the environment variables
None == "<None>"

\* self._webhook_url() of this run, and the delivery URL of somebody else's hook
WebhookUrl == "https://webhook-intake.datadoghq.com/api/v2/webhook"

OtherUrl == "https://example.org/hook"

(* ------------------------------------------------------------------ *)
(* Helpers on sequences                                                *)
(* ------------------------------------------------------------------ *)

Range(s) == { s[k] : k \in 1..Len(s) }

RECURSIVE Concat(_)
Concat(ss) == IF ss = << >> THEN << >> ELSE Head(ss) \o Concat(Tail(ss))

(* ------------------------------------------------------------------ *)
(* The organization: projects held by the server, in pages             *)
(* ------------------------------------------------------------------ *)

Alpha == [id |-> 1, name |-> "Alpha"]

Beta == [id |-> 2, name |-> "Beta"]

\* the projects listing of the server: its pages, and where a page response carries
\* the continuation token
Servers ==
    { [pages |-> << << Alpha, Beta >> >>, tokenField |-> "body.continuation_token"],
      [pages |-> << << >> >>, tokenField |-> "header.x-ms-continuationtoken"],
      [pages |-> << << Alpha >>, << >>, << Beta >> >>,
       tokenField |-> "body.continuation_token"],
      [pages |-> << << Alpha >>, << >>, << Beta >> >>,
       tokenField |-> "header.x-ms-continuationtoken"] }

\* a subscription record of the server
Hook(id, pid, ev, url) ==
    [id |-> id, publisherInputs |-> [projectId |-> pid], eventType |-> ev, url |-> url]

\* subscriptions <<projectId, eventType, url>> numbered by position
Numbered(raw) == [k \in 1..Len(raw) |-> Hook(k, raw[k][1], raw[k][2], raw[k][3])]

AllFor(pid) == [k \in 1..Len(EVENT_TYPES) |-> << pid, EVENT_TYPES[k], WebhookUrl >>]

\* 7 of the 9 event types: git.push and the run-state event are missing
SevenFor(pid) ==
    << << pid, EVENT_TYPES[1], WebhookUrl >>, << pid, EVENT_TYPES[2], WebhookUrl >>,
       << pid, EVENT_TYPES[5], WebhookUrl >>, << pid, EVENT_TYPES[6], WebhookUrl >>,
       << pid, EVENT_TYPES[7], WebhookUrl >>, << pid, EVENT_TYPES[8], WebhookUrl >>,
       << pid, EVENT_TYPES[9], WebhookUrl >> >>

\* remote states the first run may find
InitRemotes ==
    { Numbered(<< >>),
      Numbered(SevenFor(1)),
      Numbered(AllFor(1) \o AllFor(2)),
      Numbered(<< << 1, "git.push", WebhookUrl >>, << 1, "git.push", WebhookUrl >>,
                  << 2, "build.complete", OtherUrl >>, << 9, "git.push", WebhookUrl >>,
                  << 1, "workitem.created", WebhookUrl >> >>) }

(* ------------------------------------------------------------------ *)
(* Inputs of a run                                                     *)
(* ------------------------------------------------------------------ *)

\* a run's command line and environment: args.uninstall, args.project, and
\* AZURE_DEVOPS_TOKEN and DD_API_KEY as os.getenv returns them
Run(uninstall, project, az, dd) ==
    [uninstall |-> uninstall, project |-> project, az |-> az, dd |-> dd]

RunInputs ==
    { Run(FALSE, None, "pat", "key"), Run(FALSE, "Beta", "pat", "key"),
      Run(FALSE, "Zeta", "pat", "key"), Run(FALSE, None, None, "key"),
      Run(FALSE, None, "", "key"), Run(FALSE, "Beta", "pat", None),
      Run(FALSE, None, "pat", ""),
      Run(TRUE, None, "pat", None), Run(TRUE, "Beta", "pat", "key"),
      Run(TRUE, None, "", "key") }

\* what the user types at the prompt, as sequences of characters
Answers ==
    { << "Y" >>, << "Y", "e", "S" >>,
      << "n", "o" >>, << >>, << "y", "e", "s", " " >> }

LowerChar(c) ==
    CASE c = "Y" -> "y"
      [] c = "E" -> "e"
      [] c = "S" -> "s"
      [] c = "N" -> "n"
      [] c = "O" -> "o"
      [] OTHER -> c

\* str.lower()
Lower(s) == [k \in 1..Len(s) |-> LowerChar(s[k])]

(* ------------------------------------------------------------------ *)
(* State                                                               *)
(* ------------------------------------------------------------------ *)

VARIABLES
    remote,       \* the server's subscriptions, in creation order
    nextId,       \* identifier the server gives to the next subscription
    serverPages,  \* the server's pages of projects
    tokenField,   \* where the server puts the continuation token
    runs,         \* number of runs started
    prevInstall,  \* scope of the preceding run when it was an install that completed
    pc,           \* position of the current run
    args,         \* args.uninstall, args.project and the environment of the run
    projects,     \* install_hooks: projects
    token,        \* list_projects: continuation_token of the next request (0: none)
    hooks,        \* result of get_existing_hooks
    existing,     \* install_hooks: existing_hooks_by_project_type
    toProcess,    \* install_hooks: toProcess
    i,            \* number of loop iterations of the create / delete loop completed
    yesno,        \* answer read by input()
    calls,        \* remote calls and prompts issued by the current run
    last,         \* operation and status of the latest remote response
    raised,       \* exception propagating out of the workflow
    outcome,      \* what the run reported
    exitCode      \* exit status of the process (-1 while it runs)

vars == << remote, nextId, serverPages, tokenField, runs, prevInstall, pc, args,
           projects, token, hooks, existing, toProcess, i, yesno, calls, last,
           raised, outcome, exitCode >>

server == << serverPages, tokenField >>

NoCalls == [validate |-> 0, list |-> 0, fetch |-> 0, create |-> 0, delete |-> 0, prompt |-> 0]

NoArgs == Run(FALSE, None, None, None)

NoAnswer == << "-" >>

Init ==
    /\ remote \in InitRemotes
    /\ nextId = Len(remote) + 1
    /\ \E srv \in Servers :
          /\ serverPages = srv.pages
          /\ tokenField = srv.tokenField
    /\ runs = 0
    /\ prevInstall = "n/a"
    /\ pc = "idle"
    /\ args = NoArgs
    /\ projects = << >>
    /\ token = 0
    /\ hooks = << >>
    /\ existing = << >>
    /\ toProcess = << >>
    /\ i = 0
    /\ yesno = NoAnswer
    /\ calls = NoCalls
    /\ last = [op |-> "none", status |-> 0]
    /\ raised = "none"
    /\ outcome = "none"
    /\ exitCode = -1

(* ------------------------------------------------------------------ *)
(* The remote API, as the script sees it                               *)
(* ------------------------------------------------------------------ *)

\* urllib hands a 2xx response to the caller and raises HTTPError for the rest
Is2xx(status) == status >= 200 /\ status <= 299

\* response of GET /_apis/projects for page k of the listing
PageResponse(k) ==
    LET more == k < Len(serverPages) IN
    [ value   |-> serverPages[k],
      body    |-> [continuation_token |->
                      IF more /\ tokenField = "body.continuation_token" THEN k + 1 ELSE 0],
      headers |-> [x_ms_continuationtoken |->
                      IF more /\ tokenField = "header.x-ms-continuationtoken" THEN k + 1 ELSE 0] ]

\* list_projects: data.get("continuation_token")
ContinuationToken(response) == response.body.continuation_token

\* list_projects: a response that is not 200, or an HTTPError, raises
ListRaises(status) == status # 200

\* get_existing_hooks: the server answers the subscriptionsquery filter on url
GetExistingHooks(rem) == SelectSeq(rem, LAMBDA h : h.url = WebhookUrl)

FetchRaises(status) == status # 200

\* variant: only a server error is taken for a failed validation
ValidateRaisesOn5xx(status) == status >= 500

\* validate_dd_api_key
ValidateRaises(status) == status # 200

\* variant: the creation swallows the error and the loop goes on
ConfigureRaisesNever(status) == FALSE

\* variant: any 2xx answer to a creation is a success
ConfigureRaisesUnless2xx(status) == ~Is2xx(status)

\* configure_service_hook: if response.status != 200: raise; HTTPError: raise
ConfigureRaises(status) == status # 200

\* delete_service_hook: if response.status != 204: raise; HTTPError (never 204): raise
DeleteRaises(status) == status # 204

(* ------------------------------------------------------------------ *)
(* Pure parts of the workflows                                         *)
(* ------------------------------------------------------------------ *)

\* main: az_devops_token is None or az_devops_token == ""
EnvMissing(v) == v = None \/ v = ""

\* variant: the --project filter is not applied
FilterProjectsKeepsAll(projs, name) == projs

\* install_hooks: [p for p in projects if p["name"] == self.project]
FilterProjects(projs, name) ==
    IF name # None THEN SelectSeq(projs, LAMBDA p : p.name = name) ELSE projs

\* variant: the lookup is keyed by the subscription's own id
KeyBySubscriptionId(h) == << h.id, h.eventType >>

Key(h) == << h.publisherInputs.projectId, h.eventType >>

\* install_hooks: the dict comprehension; a later hook of the same key wins
ExistingByProjectType(hs) ==
    [ key \in { Key(hs[k]) : k \in 1..Len(hs) } |->
        LET at == { k \in 1..Len(hs) : Key(hs[k]) = key }
        IN  hs[CHOOSE k \in at : \A m \in at : m <= k] ]

RECURSIVE MissingTypesButLast(_, _, _)
\* variant: the inner loop stops one event type short
MissingTypesButLast(project, ex, k) ==
    IF k >= Len(EVENT_TYPES) THEN << >>
    ELSE (IF << project.id, EVENT_TYPES[k] >> \notin DOMAIN ex
             THEN << << project, EVENT_TYPES[k] >> >>
             ELSE << >>)
         \o MissingTypesButLast(project, ex, k + 1)

RECURSIVE MissingTypes(_, _, _)
\* install_hooks: the inner loop over EVENT_TYPES, starting at index k
MissingTypes(project, ex, k) ==
    IF k > Len(EVENT_TYPES) THEN << >>
    ELSE (IF << project.id, EVENT_TYPES[k] >> \notin DOMAIN ex
             THEN << << project, EVENT_TYPES[k] >> >>
             ELSE << >>)
         \o MissingTypes(project, ex, k + 1)

\* variant: every pair of the scope is processed, configured already or not
ComputeToProcessAll(projs, ex) ==
    [ k \in 1..(Len(projs) * Len(EVENT_TYPES)) |->
        << projs[((k - 1) \div Len(EVENT_TYPES)) + 1],
           EVENT_TYPES[((k - 1) % Len(EVENT_TYPES)) + 1] >> ]

RECURSIVE ComputeToProcess(_, _)
\* install_hooks: the loop over projects building toProcess
ComputeToProcess(projs, ex) ==
    IF projs = << >> THEN << >>
    ELSE MissingTypes(Head(projs), ex, 1) \o ComputeToProcess(Tail(projs), ex)

\* variant: only an explicit "no" declines
DeclinesOnlyOnNo(ans) == Lower(ans) \in { << "n", "o" >>, << "n" >> }

\* install_hooks / uninstall_hooks: yesno.lower() not in ["yes", "y"]
Declines(ans) == Lower(ans) \notin { << "y", "e", "s" >>, << "y" >> }

\* variant: the scope test is inverted
UninstallRejectsInverted(project) == project = None

\* uninstall_hooks: if self.project is not None
UninstallRejects(project) == project # None

(* ------------------------------------------------------------------ *)
(* Actions                                                             *)
(* ------------------------------------------------------------------ *)

Called(op) == [calls EXCEPT ![op] = @ + 1]

\* an exception leaves the workflow for main
Raise(exc) ==
    /\ raised' = exc
    /\ pc' = "except"
    /\ UNCHANGED << outcome, exitCode >>

\* the workflow returns or exits
Finish(out, code) ==
    /\ outcome' = out
    /\ exitCode' = code
    /\ pc' = "done"

\* main: a run of the script starts; environment checks and Client(...)
Main(run) ==
    /\ pc \in { "idle", "done" }
    /\ runs < MaxRuns
    /\ runs' = runs + 1
    /\ prevInstall' = IF pc = "done" /\ ~args.uninstall /\ outcome = "installed"
                         THEN args.project ELSE "n/a"
    /\ args' = run
    /\ projects' = << >>
    /\ token' = 0
    /\ hooks' = << >>
    /\ existing' = << >>
    /\ toProcess' = << >>
    /\ i' = 0
    /\ yesno' = NoAnswer
    /\ calls' = NoCalls
    /\ last' = [op |-> "none", status |-> 0]
    /\ raised' = "none"
    /\ IF EnvMissing(run.az) \/ (~run.uninstall /\ EnvMissing(run.dd))
          THEN /\ outcome' = "missing_env"
               /\ exitCode' = 1
               /\ pc' = "done"
          ELSE /\ outcome' = "none"
               /\ exitCode' = -1
               /\ pc' = IF run.uninstall THEN "uninstall" ELSE "validate"
    /\ UNCHANGED << remote, nextId, server >>

\* install_hooks: self.validate_dd_api_key()
ValidateDdApiKey ==
    /\ pc = "validate"
    /\ \E status \in { 200, 204, 403 } :
          /\ calls' = Called("validate")
          /\ last' = [op |-> "validate", status |-> status]
          /\ IF ValidateRaises(status)
                THEN Raise("Exception")
                ELSE /\ pc' = "list"
                     /\ UNCHANGED << raised, outcome, exitCode >>
    /\ UNCHANGED << remote, nextId, server, runs, prevInstall, args, projects, token,
                    hooks, existing, toProcess, i, yesno >>

\* list_projects: one request of the listing (the first one, or a recursive call)
ListProjects ==
    /\ pc = "list"
    /\ \E status \in { 200, 203, 401 } :
          /\ calls' = Called("list")
          /\ last' = [op |-> "list", status |-> status]
          /\ IF ListRaises(status)
                THEN /\ Raise("AzureDevOpsException")
                     /\ UNCHANGED << projects, token >>
                ELSE LET response == PageResponse(IF token = 0 THEN 1 ELSE token) IN
                     /\ projects' = projects \o response.value
                     /\ token' = ContinuationToken(response)
                     /\ pc' = IF token' # 0 THEN "list" ELSE "filter"
                     /\ UNCHANGED << raised, outcome, exitCode >>
    /\ UNCHANGED << remote, nextId, server, runs, prevInstall, args, hooks, existing,
                    toProcess, i, yesno >>

\* install_hooks: the project filter and the empty-scope outcomes
SelectProjects ==
    /\ pc = "filter"
    /\ projects' = FilterProjects(projects, args.project)
    /\ IF Len(projects') = 0
          THEN Finish(IF args.project = None THEN "no_projects" ELSE "project_not_found", 0)
          ELSE /\ pc' = "fetch"
               /\ UNCHANGED << outcome, exitCode >>
    /\ UNCHANGED << remote, nextId, server, runs, prevInstall, args, token, hooks,
                    existing, toProcess, i, yesno, calls, last, raised >>

\* install_hooks: get_existing_hooks(), the lookup, toProcess, and the nothing-missing outcome
Reconcile ==
    /\ pc = "fetch"
    /\ \E status \in { 200, 500 } :
          /\ calls' = Called("fetch")
          /\ last' = [op |-> "fetch", status |-> status]
          /\ IF FetchRaises(status)
                THEN /\ Raise("AzureDevOpsException")
                     /\ UNCHANGED << hooks, existing, toProcess >>
                ELSE /\ hooks' = GetExistingHooks(remote)
                     /\ existing' = ExistingByProjectType(hooks')
                     /\ toProcess' = ComputeToProcess(projects, existing')
                     /\ raised' = raised
                     /\ IF Len(toProcess') = 0
                           THEN Finish("already_configured", 0)
                           ELSE /\ pc' = IF args.project = None THEN "prompt" ELSE "create"
                                /\ UNCHANGED << outcome, exitCode >>
    /\ UNCHANGED << remote, nextId, server, runs, prevInstall, args, projects, token,
                    i, yesno >>

\* install_hooks / uninstall_hooks: input(...) and the yes/no test
Confirm ==
    /\ pc \in { "prompt", "uprompt" }
    /\ \E ans \in Answers :
          /\ yesno' = ans
          /\ calls' = Called("prompt")
          /\ IF Declines(ans)
                THEN /\ raised' = "SystemExit"
                     /\ Finish("declined", 1)
                ELSE /\ pc' = IF pc = "prompt" THEN "create" ELSE "delete"
                     /\ UNCHANGED << raised, outcome, exitCode >>
    /\ UNCHANGED << remote, nextId, server, runs, prevInstall, args, projects, token,
                    hooks, existing, toProcess, i, last >>

\* install_hooks: one iteration of the loop, configure_service_hook(project, event_type)
ConfigureServiceHook ==
    /\ pc = "create"
    /\ i < Len(toProcess)
    /\ \E status \in { 200, 201, 500 } :
          /\ calls' = Called("create")
          /\ last' = [op |-> "create", status |-> status]
          /\ IF Is2xx(status)
                THEN /\ remote' = Append(remote, Hook(nextId, toProcess[i + 1][1].id,
                                                      toProcess[i + 1][2], WebhookUrl))
                     /\ nextId' = nextId + 1
                ELSE UNCHANGED << remote, nextId >>
          /\ IF ConfigureRaises(status)
                THEN /\ Raise("AzureDevOpsException")
                     /\ i' = i
                ELSE /\ i' = i + 1
                     /\ UNCHANGED << pc, raised, outcome, exitCode >>
    /\ UNCHANGED << server, runs, prevInstall, args, projects, token, hooks, existing,
                    toProcess, yesno >>

\* install_hooks: the loop is over, the success count is printed
InstallReport ==
    /\ pc = "create"
    /\ i = Len(toProcess)
    /\ Finish("installed", 0)
    /\ UNCHANGED << remote, nextId, server, runs, prevInstall, args, projects, token,
                    hooks, existing, toProcess, i, yesno, calls, last, raised >>

\* uninstall_hooks: the scope check, get_existing_hooks() and the none-found outcome
UninstallHooks ==
    /\ pc = "uninstall"
    /\ IF UninstallRejects(args.project)
          THEN /\ Finish("unsupported_scope", 0)
               /\ UNCHANGED << hooks, calls, last, raised >>
          ELSE \E status \in { 200, 500 } :
                  /\ calls' = Called("fetch")
                  /\ last' = [op |-> "fetch", status |-> status]
                  /\ IF FetchRaises(status)
                        THEN /\ Raise("AzureDevOpsException")
                             /\ hooks' = hooks
                        ELSE /\ hooks' = GetExistingHooks(remote)
                             /\ raised' = raised
                             /\ IF Len(hooks') = 0
                                   THEN Finish("no_hooks", 0)
                                   ELSE /\ pc' = "uprompt"
                                        /\ UNCHANGED << outcome, exitCode >>
    /\ UNCHANGED << remote, nextId, server, runs, prevInstall, args, projects, token,
                    existing, toProcess, i, yesno >>

\* uninstall_hooks: one iteration of the loop, delete_service_hook(hook)
DeleteServiceHook ==
    /\ pc = "delete"
    /\ i < Len(hooks)
    /\ \E status \in { 204, 404 } :
          /\ calls' = Called("delete")
          /\ last' = [op |-> "delete", status |-> status]
          /\ remote' = IF Is2xx(status)
                          THEN SelectSeq(remote, LAMBDA h : h.id # hooks[i + 1].id)
                          ELSE remote
          /\ IF DeleteRaises(status)
                THEN /\ Raise("AzureDevOpsException")
                     /\ i' = i
                ELSE /\ i' = i + 1
                     /\ UNCHANGED << pc, raised, outcome, exitCode >>
    /\ UNCHANGED << nextId, server, runs, prevInstall, args, projects, token, hooks,
                    existing, toProcess, yesno >>

\* uninstall_hooks: the loop is over, the success count is printed
UninstallReport ==
    /\ pc = "delete"
    /\ i = Len(hooks)
    /\ Finish("uninstalled", 0)
    /\ UNCHANGED << remote, nextId, server, runs, prevInstall, args, projects, token,
                    hooks, existing, toProcess, i, yesno, calls, last, raised >>

\* main: the exception reaches main; the handler of AzureDevOpsException ends in
\* exit(1), and an exception it does not catch ends the interpreter with status 1
MainExcept ==
    /\ pc = "except"
    /\ Finish(IF raised = "AzureDevOpsException" THEN "azure_error" ELSE "uncaught", 1)
    /\ UNCHANGED << remote, nextId, server, runs, prevInstall, args, projects, token,
                    hooks, existing, toProcess, i, yesno, calls, last, raised >>

Next ==
    \/ \E run \in RunInputs : Main(run)
    \/ ValidateDdApiKey
    \/ ListProjects
    \/ SelectProjects
    \/ Reconcile
    \/ Confirm
    \/ ConfigureServiceHook
    \/ InstallReport
    \/ UninstallHooks
    \/ DeleteServiceHook
    \/ UninstallReport
    \/ MainExcept

Spec == Init /\ [][Next]_vars

(* ------------------------------------------------------------------ *)
(* Properties                                                          *)
(* ------------------------------------------------------------------ *)

IsInstall == runs > 0 /\ ~args.uninstall

IsUninstall == runs > 0 /\ args.uninstall

\* the install run has fetched the existing subscriptions and built toProcess
Reconciled ==
    /\ IsInstall
    /\ calls.fetch = 1
    /\ ~(last.op = "fetch" /\ raised = "AzureDevOpsException")

\* projects and event types a pair may be made of, in scope or not
SomeProjects == { Alpha, Beta, [id |-> 9, name |-> "Ghost"] }

SomeEventTypes == Range(EVENT_TYPES) \cup { "workitem.created" }

HasSubscription(hs, p, e) ==
    \E k \in 1..Len(hs) : hs[k].publisherInputs.projectId = p.id /\ hs[k].eventType = e

\* C1: toProcess holds a pair (project, event type) exactly when the project is in
\* scope, the event type is one of the 9 of EVENT_TYPES, and no subscription returned
\* by get_existing_hooks has that (publisherInputs.projectId, eventType).
C1_ToProcessIsTheDifference ==
    Reconciled =>
        /\ Len(EVENT_TYPES) = 9
        /\ Range(toProcess) =
              { pe \in SomeProjects \X SomeEventTypes :
                    /\ pe[1] \in Range(projects)
                    /\ pe[2] \in Range(EVENT_TYPES)
                    /\ ~HasSubscription(hooks, pe[1], pe[2]) }

\* 7 of the 9 event types exist for Alpha: exactly the 2 missing pairs are computed
C1_Witness ==
    /\ Reconciled
    /\ Len(hooks) = 7
    /\ toProcess = << << Alpha, "git.push" >>,
                      << Alpha, "ms.vss-pipelines.run-state-changed-event" >> >>

\* the current run is an install with the scope of the install that just completed
SecondInstall == IsInstall /\ prevInstall # "n/a" /\ args.project = prevInstall

\* C2: an install run that follows a completed install of the same scope issues no
\* creation call and shows no prompt, and unless it fails on its way there it ends
\* with the 'already configured' outcome.
C2_SecondInstallCreatesNothing ==
    SecondInstall =>
        /\ calls.create = 0
        /\ calls.prompt = 0
        /\ (pc = "done" /\ exitCode = 0 => outcome = "already_configured")

C2_Witness ==
    /\ SecondInstall
    /\ args.project = None
    /\ pc = "done"
    /\ outcome = "already_configured"
    /\ Len(hooks) = 18

\* C3: list_projects requests every page of the server and returns the
\* concatenation of the pages in page order.
C3_ListingIsAllPages ==
    pc = "filter" =>
        /\ calls.list = Len(serverPages)
        /\ projects = Concat(serverPages)

\* the run stopped on an HTTP error answer to a creation or a deletion
MutationFailed == last.op \in { "create", "delete" } /\ last.status >= 400

\* C4: once a creation or deletion call has failed with a remote error, the run
\* issues no further call, leaves the remote state as it is, reports no success
\* count and ends with exit code 1.
C4_FailFast ==
    [][ (MutationFailed /\ runs' = runs) =>
            /\ calls' = calls
            /\ remote' = remote
            /\ outcome' \notin { "installed", "uninstalled" }
            /\ (pc' = "done" => exitCode' = 1) ]_vars

\* the 2nd of 9 creations failed: one subscription was created, 7 calls were never made
C4_Witness ==
    /\ pc = "done"
    /\ last = [op |-> "create", status |-> 500]
    /\ calls.create = 2
    /\ Len(toProcess) = 9
    /\ Len(remote) = 1
    /\ exitCode = 1

\* every spelling of "yes" and "y", whatever the case of its letters
YesSpellings ==
    { << "y" >>, << "Y" >>,
      << "y", "e", "s" >>, << "Y", "e", "s" >>, << "y", "E", "s" >>, << "y", "e", "S" >>,
      << "Y", "E", "s" >>, << "Y", "e", "S" >>, << "y", "E", "S" >>, << "Y", "E", "S" >> }

\* C5: in an install of all projects and in an uninstall, a creation or deletion
\* call is issued only after the prompt was answered by a spelling of yes or y; any
\* other answer ends the run at once with no such call and exit code 1; an install
\* of a single named project shows no prompt.
C5_ConfirmationGates ==
    /\ (IsUninstall \/ (IsInstall /\ args.project = None)) =>
          /\ (calls.create + calls.delete > 0 =>
                 calls.prompt = 1 /\ yesno \in YesSpellings)
          /\ (calls.prompt > 0 /\ yesno \notin YesSpellings =>
                 /\ calls.create = 0
                 /\ calls.delete = 0
                 /\ pc = "done"
                 /\ exitCode = 1)
    /\ (IsInstall /\ args.project # None) => calls.prompt = 0

C5_Witness ==
    /\ IsInstall
    /\ args.project = None
    /\ yesno = << "Y", "e", "S" >>
    /\ calls.prompt = 1
    /\ calls.create = 3

\* C6 as stated: a creation answered 200 or 201 is a success.
C6_Created201IsSuccess ==
    last.op = "create" /\ last.status \in { 200, 201 } => raised = "none"

\* C6: a creation is a success, and the loop goes on to the next pair, only when
\* the response status is 200; any other status, 201 included, raises the remote
\* error.
C6_Only200IsSuccess ==
    last.op = "create" =>
        IF last.status = 200
           THEN raised = "none" /\ i = calls.create
           ELSE raised = "AzureDevOpsException" /\ i = calls.create - 1

C6_Witness ==
    /\ last = [op |-> "create", status |-> 201]
    /\ raised = "AzureDevOpsException"
    /\ pc = "done"
    /\ exitCode = 1

\* C7: in an install the validation is the first remote call, and after a non-200
\* answer to it the run lists no project, fetches no subscription, creates nothing
\* and ends with exit code 1.
C7_ValidationFirst ==
    IsInstall =>
        /\ (calls.list + calls.fetch + calls.create > 0 => calls.validate = 1)
        /\ (last.op = "validate" /\ last.status # 200 =>
               /\ calls.list = 0
               /\ calls.fetch = 0
               /\ calls.create = 0
               /\ pc \in { "except", "done" }
               /\ (pc = "done" => exitCode = 1))

C7_Witness ==
    /\ IsInstall
    /\ last = [op |-> "validate", status |-> 403]
    /\ pc = "done"
    /\ exitCode = 1

\* C8: an uninstall given --project issues no remote call and no prompt, and is
\* rejected whatever subscriptions the server holds.
C8_ScopedUninstallRejected ==
    IsUninstall /\ args.project # None =>
        /\ calls = NoCalls
        /\ pc \in { "uninstall", "done" }
        /\ (pc = "done" => outcome \in { "unsupported_scope", "missing_env" })

C8_Witness ==
    /\ IsUninstall
    /\ args.project = "Beta"
    /\ pc = "done"
    /\ outcome = "unsupported_scope"
    /\ Len(GetExistingHooks(remote)) = 18

NamedInListing(name) ==
    \E k \in 1..Len(Concat(serverPages)) : Concat(serverPages)[k].name = name

\* C9: an install filtered to a name that no listed project has creates nothing,
\* fetches no subscriptions, and unless it fails before the filter it ends with the
\* 'project not found' outcome.
C9_UnknownProjectNotFound ==
    IsInstall /\ args.project # None /\ ~NamedInListing(args.project) =>
        /\ calls.create = 0
        /\ calls.fetch = 0
        /\ pc \notin { "fetch", "prompt", "create" }
        /\ (pc = "done" /\ exitCode = 0 => outcome = "project_not_found")

C9_Witness ==
    /\ IsInstall
    /\ args.project = "Zeta"
    /\ pc = "done"
    /\ outcome = "project_not_found"
    /\ calls.list = 3
    /\ Len(remote) = 7

\* at most one subscription of this tool's webhook URL per (projectId, eventType)
UniquePairs(rem) ==
    LET ours == { k \in 1..Len(rem) : rem[k].url = WebhookUrl }
    IN  Cardinality({ Key(rem[k]) : k \in ours }) = Cardinality(ours)

\* C10: no step of an install or uninstall run, completed, declined or aborted,
\* takes the remote state from at most one subscription per (projectId, eventType)
\* for the tool's URL to more than one.
C10_UniquenessPreserved == [][UniquePairs(remote) => UniquePairs(remote')]_vars

\* two installs built the 18 subscriptions between them
C10_Witness ==
    /\ runs = 2
    /\ IsInstall
    /\ args.project = None
    /\ outcome = "installed"
    /\ calls.create < 18
    /\ nextId = 19
    /\ Len(remote) = 18
    /\ UniquePairs(remote)

====
